---- MODULE Spec2Model ----
(***************************************************************************)
(* Model of django_mongodb/fields/embedded_model.py: EmbeddedModelField    *)
(* (stored_model, to_python, get_db_prep_save, _set_model) and the         *)
(* iterable fields (AbstractIterableField.__init__/pre_save,               *)
(* ListField.pre_save).                                                    *)
(*                                                                         *)
(* Python dicts are functions from key strings to value strings, Python's  *)
(* None is the string "None", exceptions are recorded by their class name  *)
(* in the outcome of the last call.                                        *)
(***************************************************************************)
EXTENDS Integers, Sequences, FiniteSets, TLC

VARIABLES
    embedded_model,   \* EmbeddedModelField.embedded_model: [kind, name]
    owner,            \* EmbeddedModelField._model: "None" or the owning model
    known,            \* is the class a string reference names registered yet
    pending,          \* is _resolve_lookup queued in the app registry
    attr,             \* the parent record's attribute: the value handed to the codec
    doc,              \* the caller-owned dict handed to to_python
    docSrc,           \* where doc comes from: "raw", "used" or the class encoded
    last,             \* the last call on the field, its arguments and its outcome
    ordering,         \* ListField.ordering: "None" or the name of a key callable
    item_field,       \* the kind of ListField.item_field
    listattr,         \* the list attribute of the record being saved: [obj, items]
    nobj,             \* list objects the application has built so far
    lastS,            \* the last ListField.pre_save call and what it returned
    null,             \* the iterable field's null option
    declared,         \* the default keyword the iterable field was declared with
    objs,             \* the list objects alive: objs[1] is the captured default
    recs,             \* the field's attribute on each record: an index of objs, 0 for None
    lastD             \* the last access to the field's default

embVars == <<embedded_model, owner, known, pending, attr, doc, docSrc, last>>

sortVars == <<ordering, item_field, listattr, nobj, lastS>>

defVars == <<null, declared, objs, recs, lastD>>

vars == <<embVars, sortVars, defVars>>

None == "None"
Now == "now"

EmptyMap == [k \in {} |-> None]

Get(d, k) == IF k \in DOMAIN d THEN d[k] ELSE None

Pop(d, k) == [x \in (DOMAIN d) \ {k} |-> d[x]]

Put(d, k, v) == [x \in (DOMAIN d) \cup {k} |-> IF x = k THEN v ELSE d[x]]

Markers == {"_module", "_model"}

-----------------------------------------------------------------------------
(* The record classes the field is exercised with.  T and U have the same  *)
(* unqualified name in different modules; S is a subclass of T.            *)

ModelClasses == {"T", "U", "S"}

ClassModule(c) == IF c = "U" THEN "lib" ELSE "app"

ClassName(c) == IF c = "S" THEN "Sub" ELSE "Rec"

Mro(c) == IF c = "S" THEN {"S", "T"} ELSE {c}

Field(attname, primary_key, auto_now_add) ==
    [attname |-> attname, primary_key |-> primary_key, auto_now_add |-> auto_now_add]

MetaFields(c) ==
    IF c = "U"
    THEN <<Field("id", TRUE, FALSE), Field("stamp", FALSE, TRUE)>>
    ELSE <<Field("id", TRUE, FALSE), Field("a", FALSE, FALSE)>>

AttNames(c) == {MetaFields(c)[i].attname : i \in 1..Len(MetaFields(c))}

Untyped == [kind |-> "none", name |-> None]

Class(c) == [kind |-> "class", name |-> c]

StrRef == [kind |-> "str", name |-> "app.Rec"]

RefTarget == "T"

-----------------------------------------------------------------------------
(* Values *)

NoValue == [kind |-> "none", cls |-> None, adding |-> FALSE, vals |-> EmptyMap]

OtherValue == [kind |-> "other", cls |-> None, adding |-> FALSE, vals |-> EmptyMap]

Instance(c, adding, vals) == [kind |-> "inst", cls |-> c, adding |-> adding, vals |-> vals]

IsInstance(v, c) == v.kind = "inst" /\ c \in Mro(v.cls)

IsModelInstance(v) == v.kind = "inst"

AppValues == {None, "v1"}

NewVals(c) == [AttNames(c) -> AppValues]

RawData ==
    { EmptyMap,
      [k \in {"id", "a"} |-> "v1"],
      [k \in {"id"} |-> None] }

ModuleMarkers == {None, "app", "lib"}

ModelMarkers == {None, "Rec", "Sub"}

WithMarkers(data, module, model) ==
    [k \in (DOMAIN data) \cup (IF module = None THEN {} ELSE {"_module"})
                         \cup (IF model = None THEN {} ELSE {"_model"}) |->
        IF k = "_module" THEN module
        ELSE IF k = "_model" THEN model
        ELSE data[k]]

-----------------------------------------------------------------------------
(* stored_model *)

Lookup(module, model) ==
    IF model = None
    THEN [outcome |-> "TypeError", model |-> Untyped]
    ELSE IF \E c \in ModelClasses : ClassModule(c) = module /\ ClassName(c) = model
    THEN [outcome |-> "ok",
          model |-> Class(CHOOSE c \in ModelClasses :
                              ClassModule(c) = module /\ ClassName(c) = model)]
    ELSE [outcome |-> "AttributeError", model |-> Untyped]

\* stored_model with the serialized class given precedence over the declared one.
stored_model_serialized_first(em, column_values) ==
    LET module == Get(column_values, "_module")
        model == Get(column_values, "_model")
        rest == Pop(Pop(column_values, "_module"), "_model")
    IN  IF module # None
        THEN [outcome |-> Lookup(module, model).outcome,
              model |-> Lookup(module, model).model,
              column_values |-> rest]
        ELSE IF em.kind # "none"
        THEN [outcome |-> "ok", model |-> em, column_values |-> rest]
        ELSE [outcome |-> "IntegrityError", model |-> Untyped, column_values |-> rest]

stored_model(em, column_values) ==
    LET module == Get(column_values, "_module")
        model == Get(column_values, "_model")
        rest == Pop(Pop(column_values, "_module"), "_model")
    IN  IF em.kind # "none"
        THEN [outcome |-> "ok", model |-> em, column_values |-> rest]
        ELSE IF module # None
        THEN [outcome |-> Lookup(module, model).outcome,
              model |-> Lookup(module, model).model,
              column_values |-> rest]
        ELSE [outcome |-> "IntegrityError", model |-> Untyped, column_values |-> rest]

-----------------------------------------------------------------------------
(* to_python *)

field_to_python(field, value) == value

AttributeValues(c, attribute_values) ==
    [k \in AttNames(c) \cap DOMAIN attribute_values |->
        field_to_python(k, attribute_values[k])]

Construct(c, kwargs) ==
    [k \in AttNames(c) |-> IF k \in DOMAIN kwargs THEN kwargs[k] ELSE None]

\* to_python without the instance._state.adding = False line.
MarkLoaded_skipped(instance) == instance

MarkLoaded(instance) == [instance EXCEPT !.adding = FALSE]

Reinstantiate(c, attribute_values) ==
    MarkLoaded(Instance(c, TRUE, Construct(c, AttributeValues(c, attribute_values))))

Call(op, input, outcome, em, arg, before, src, model, kwargs, ret) ==
    [op |-> op, input |-> input, outcome |-> outcome, em |-> em, arg |-> arg,
     before |-> before, src |-> src, model |-> model, kwargs |-> kwargs, ret |-> ret]

NoCall(op) == Call(op, None, "ok", Untyped, NoValue, EmptyMap, None, Untyped, {}, None)

\* to_python(value) with value a dict: the caller's dict is doc, which
\* stored_model pops the markers from.
ToPythonDict ==
    LET sm == stored_model(embedded_model, doc)
    IN  /\ doc' = sm.column_values
        /\ docSrc' = "used"
        /\ IF sm.outcome # "ok"
           THEN /\ attr' = attr
                /\ last' = Call("to_python", "dict", sm.outcome, embedded_model, attr,
                                doc, docSrc, sm.model, {}, "raise")
           ELSE IF sm.model.kind = "str"
           THEN /\ attr' = attr
                /\ last' = Call("to_python", "dict", "AttributeError", embedded_model,
                                attr, doc, docSrc, sm.model, {}, "raise")
           ELSE /\ attr' = Reinstantiate(sm.model.name, sm.column_values)
                /\ last' = Call("to_python", "dict", "ok", embedded_model, attr, doc,
                                docSrc, sm.model,
                                DOMAIN AttributeValues(sm.model.name, sm.column_values),
                                "instance")
        /\ UNCHANGED <<embedded_model, owner, known, pending, sortVars, defVars>>

\* to_python(value) with value a (model, attribute_values) tuple whose second
\* member is the caller's dict.
ToPythonTuple(c) ==
    /\ attr' = Reinstantiate(c, doc)
    /\ last' = Call("to_python", "tuple", "ok", embedded_model, attr, doc, docSrc,
                    Class(c), DOMAIN AttributeValues(c, doc), "instance")
    /\ UNCHANGED <<embedded_model, owner, known, pending, doc, docSrc, sortVars, defVars>>

\* to_python(value) with any other value (None, an instance, a scalar): the
\* parent's attribute is passed in and returned.
ToPythonValue ==
    /\ last' = Call("to_python", "value", "ok", embedded_model, attr, doc, docSrc,
                    Untyped, {}, IF attr.kind = "inst" THEN "instance" ELSE "value")
    /\ UNCHANGED <<embedded_model, owner, known, pending, attr, doc, docSrc, sortVars, defVars>>

-----------------------------------------------------------------------------
(* get_db_prep_save *)

ExpectedModel(em) == IF em.kind = "none" THEN [kind |-> "class", name |-> "Model"] ELSE em

IsInstanceOfExpected(value, em) ==
    IF ExpectedModel(em).name = "Model"
    THEN IsModelInstance(value)
    ELSE IsInstance(value, ExpectedModel(em).name)

\* The isinstance check made against models.Model whatever the field declares.
TypeMismatch_any_model(value, em) == em.kind = "str" \/ ~IsModelInstance(value)

\* not isinstance(embedded_instance, embedded_model); a str as second argument
\* makes isinstance itself raise TypeError.
TypeMismatch(value, em) == em.kind = "str" \/ ~IsInstanceOfExpected(value, em)

field_pre_save(field, vals, add) ==
    IF field.auto_now_add /\ add
    THEN [value |-> Now, vals |-> [vals EXCEPT ![field.attname] = Now]]
    ELSE [value |-> vals[field.attname], vals |-> vals]

field_get_db_prep_save(field, value) == value

\* Every null value left out, not only an unset primary key.
ExcludeField_any_null(field, value) == value = None

ExcludeField(field, value) == field.primary_key /\ value = None

RECURSIVE SaveFields(_, _, _, _, _)
SaveFields(fields, i, vals, add, field_values) ==
    IF i > Len(fields)
    THEN [vals |-> vals, field_values |-> field_values]
    ELSE LET field == fields[i]
             ps == field_pre_save(field, vals, add)
             value == field_get_db_prep_save(field, ps.value)
         IN  SaveFields(fields, i + 1, ps.vals, add,
                        IF ExcludeField(field, value)
                        THEN field_values
                        ELSE Put(field_values, field.attname, value))

\* The module recorded is that of the field's owner, not of the instance.
ModelInfo_owner_module(c) ==
    [k \in Markers |-> IF k = "_module" THEN "app" ELSE ClassName(c)]

ModelInfo(c) ==
    [k \in Markers |-> IF k = "_module" THEN ClassModule(c) ELSE ClassName(c)]

Update(d, e) == [k \in (DOMAIN d) \cup (DOMAIN e) |-> IF k \in DOMAIN e THEN e[k] ELSE d[k]]

MarkSaved(instance) == [instance EXCEPT !.adding = FALSE]

\* get_db_prep_save(embedded_instance, connection) on the parent's attribute;
\* the returned dict becomes the caller's dict.
GetDbPrepSave ==
    /\ IF attr.kind = "none"
       THEN /\ last' = Call("get_db_prep_save", "value", "ok", embedded_model, attr, doc,
                            docSrc, Untyped, {}, None)
            /\ UNCHANGED <<attr, doc, docSrc>>
       ELSE IF TypeMismatch(attr, embedded_model)
       THEN /\ last' = Call("get_db_prep_save", "value", "TypeError", embedded_model,
                            attr, doc, docSrc, Untyped, {}, "raise")
            /\ UNCHANGED <<attr, doc, docSrc>>
       ELSE LET sf == SaveFields(MetaFields(attr.cls), 1, attr.vals, attr.adding, EmptyMap)
                field_values == IF embedded_model.kind = "none"
                                THEN Update(sf.field_values, ModelInfo(attr.cls))
                                ELSE sf.field_values
            IN  /\ attr' = MarkSaved([attr EXCEPT !.vals = sf.vals])
                /\ doc' = field_values
                /\ docSrc' = attr.cls
                /\ last' = Call("get_db_prep_save", "value", "ok", embedded_model, attr,
                                doc, docSrc, Class(attr.cls), {}, "dict")
    /\ UNCHANGED <<embedded_model, owner, known, pending, sortVars, defVars>>

-----------------------------------------------------------------------------
(* _set_model and the deferred resolution of a string reference *)

\* field.model = model (contribute_to_class, or the owning collection field).
SetModel ==
    /\ owner = None
    /\ owner' = "Owner"
    /\ IF embedded_model.kind = "str"
       THEN IF known
            THEN embedded_model' = Class(RefTarget) /\ pending' = pending
            ELSE pending' = TRUE /\ embedded_model' = embedded_model
       ELSE UNCHANGED <<embedded_model, pending>>
    /\ last' = NoCall("app")
    /\ UNCHANGED <<known, attr, doc, docSrc, sortVars, defVars>>

\* The class the string names is registered: queued operations run.
RegisterTarget ==
    /\ embedded_model.kind = "str"
    /\ ~known
    /\ known' = TRUE
    /\ IF pending
       THEN embedded_model' = Class(RefTarget) /\ pending' = FALSE
       ELSE UNCHANGED <<embedded_model, pending>>
    /\ last' = NoCall("app")
    /\ UNCHANGED <<owner, attr, doc, docSrc, sortVars, defVars>>

-----------------------------------------------------------------------------
(* The application and the storage driver *)

\* Application code builds a fresh instance and assigns it.
NewInstance(c, vals) ==
    /\ attr' = Instance(c, TRUE, vals)
    /\ last' = NoCall("app")
    /\ UNCHANGED <<embedded_model, owner, known, pending, doc, docSrc, sortVars, defVars>>

\* Application code assigns None or a value that is no model instance.
SetValue(v) ==
    /\ attr' = v
    /\ last' = NoCall("app")
    /\ UNCHANGED <<embedded_model, owner, known, pending, doc, docSrc, sortVars, defVars>>

\* The driver or a deserializer hands over a raw document.
MakeDoc(data, module, model) ==
    /\ doc' = WithMarkers(data, module, model)
    /\ docSrc' = "raw"
    /\ last' = NoCall("app")
    /\ UNCHANGED <<embedded_model, owner, known, pending, attr, sortVars, defVars>>

-----------------------------------------------------------------------------
(* ListField.pre_save and AbstractIterableField.pre_save *)

MaxLen == 3

MaxLists == 2

Today == 9

Elems == {1, 2, 3}

Orderings == {None, "identity", "negate", "parity"}

ItemFields == {"RawField", "AutoNowField"}

Lists == UNION {[1..n -> Elems] : n \in 0..MaxLen}

NoList == [obj |-> 0, items |-> <<>>]

\* self.ordering(x) for the key callables the field is declared with.
Key(f, x) ==
    IF f = "negate" THEN 0 - x
    ELSE IF f = "parity" THEN x % 2
    ELSE x

RECURSIVE Insert(_, _, _)
Insert(f, sorted, x) ==
    IF sorted = <<>>
    THEN <<x>>
    ELSE IF Key(f, Head(sorted)) <= Key(f, x)
    THEN <<Head(sorted)>> \o Insert(f, Tail(sorted), x)
    ELSE <<x>> \o sorted

\* list.sort(key=f): stable, ascending in the key.
RECURSIVE Sort(_, _)
Sort(f, s) ==
    IF s = <<>>
    THEN <<>>
    ELSE Insert(f, Sort(f, SubSeq(s, 1, Len(s) - 1)), s[Len(s)])

\* item_field.pre_save(_FakeModel(item_field, item), add)
item_pre_save(kind, item, add) ==
    IF kind = "AutoNowField" THEN Today ELSE item

\* self._map(function, iterable): a new list of the images, in order.
MapItems(kind, items, add) ==
    [i \in 1..Len(items) |-> item_pre_save(kind, items[i], add)]

\* ListField.pre_save without the sort.
SortInPlace_skipped(f, v) == v

\* The attribute after ListField.pre_save's sort.
SortInPlace(f, v) ==
    IF Len(v.items) > 0 /\ f # None
    THEN [v EXCEPT !.items = Sort(f, v.items)]
    ELSE v

\* Application code assigns a list it has built to the record's attribute.
AssignList(items) ==
    /\ nobj < MaxLists
    /\ nobj' = nobj + 1
    /\ listattr' = [obj |-> nobj + 1, items |-> items]
    /\ lastS' = [op |-> "app", arg |-> NoList, add |-> FALSE, ret |-> None]
    /\ UNCHANGED <<ordering, item_field, embVars, defVars>>

\* Application code sets the attribute to None.
AssignNone ==
    /\ listattr' = NoList
    /\ lastS' = [op |-> "app", arg |-> NoList, add |-> FALSE, ret |-> None]
    /\ UNCHANGED <<ordering, item_field, nobj, embVars, defVars>>

\* ListField.pre_save(model_instance, add)
ListPreSave(add) ==
    /\ IF listattr = NoList
       THEN /\ listattr' = listattr
            /\ lastS' = [op |-> "pre_save", arg |-> listattr, add |-> add, ret |-> None]
       ELSE /\ listattr' = SortInPlace(ordering, listattr)
            /\ lastS' = [op |-> "pre_save", arg |-> listattr, add |-> add,
                         ret |-> MapItems(item_field, SortInPlace(ordering, listattr).items, add)]
    /\ UNCHANGED <<ordering, item_field, nobj, embVars, defVars>>

-----------------------------------------------------------------------------
(* AbstractIterableField.__init__: the default *)

MaxRecs == 2

Additions == {1, 2}

\* The default keyword: not given, or a non-callable collection.
Declarations ==
    { [given |-> FALSE, items |-> <<>>],
      [given |-> TRUE, items |-> <<>>],
      [given |-> TRUE, items |-> <<2, 1>>] }

\* kwargs.get("default", None if kwargs.get("null") else EMPTY_ITER): is the
\* default a collection (TRUE) or None (FALSE).
HasCollectionDefault(nul, decl) == decl.given \/ ~nul

\* The captured default itself handed out on every access.
DefaultObject_shared(heap) == [heap |-> heap, ref |-> 1]

\* The object the lambda hands out: self._type(default), a new list.
DefaultObject(heap) == [heap |-> Append(heap, heap[1]), ref |-> Len(heap) + 1]

\* A record is created: its attribute is initialised with field.get_default().
NewRecord ==
    /\ Len(recs) < MaxRecs
    /\ IF HasCollectionDefault(null, declared)
       THEN /\ objs' = DefaultObject(objs).heap
            /\ recs' = Append(recs, DefaultObject(objs).ref)
            /\ lastD' = [op |-> "get_default", ref |-> DefaultObject(objs).ref]
       ELSE /\ objs' = objs
            /\ recs' = Append(recs, 0)
            /\ lastD' = [op |-> "get_default", ref |-> 0]
    /\ UNCHANGED <<null, declared, embVars, sortVars>>

\* Application code appends to the collection a record holds.
AppendItem(r, x) ==
    /\ r \in 1..Len(recs)
    /\ recs[r] # 0
    /\ Len(objs[recs[r]]) < MaxLen
    /\ objs' = [objs EXCEPT ![recs[r]] = Append(@, x)]
    /\ lastD' = [op |-> "app", ref |-> 0]
    /\ UNCHANGED <<null, declared, recs, embVars, sortVars>>

\* Application code empties the collection a record holds.
ClearItems(r) ==
    /\ r \in 1..Len(recs)
    /\ recs[r] # 0
    /\ objs[recs[r]] # <<>>
    /\ objs' = [objs EXCEPT ![recs[r]] = <<>>]
    /\ lastD' = [op |-> "app", ref |-> 0]
    /\ UNCHANGED <<null, declared, recs, embVars, sortVars>>

-----------------------------------------------------------------------------
(* Specifications *)

InitEmbedded ==
    /\ embedded_model \in {Untyped, Class("T"), StrRef}
    /\ owner = None
    /\ known = FALSE
    /\ pending = FALSE
    /\ attr = NoValue
    /\ doc = EmptyMap
    /\ docSrc = "raw"
    /\ last = NoCall("init")

IdleEmbedded ==
    /\ embedded_model = Untyped
    /\ owner = None
    /\ known = FALSE
    /\ pending = FALSE
    /\ attr = NoValue
    /\ doc = EmptyMap
    /\ docSrc = "raw"
    /\ last = NoCall("init")

InitSort ==
    /\ ordering \in Orderings
    /\ item_field \in ItemFields
    /\ listattr = NoList
    /\ nobj = 0
    /\ lastS = [op |-> "init", arg |-> NoList, add |-> FALSE, ret |-> None]

IdleSort ==
    /\ ordering = None
    /\ item_field = "RawField"
    /\ listattr = NoList
    /\ nobj = 0
    /\ lastS = [op |-> "init", arg |-> NoList, add |-> FALSE, ret |-> None]

InitDefault ==
    /\ null \in BOOLEAN
    /\ declared \in Declarations
    /\ objs = IF HasCollectionDefault(null, declared) THEN <<declared.items>> ELSE <<>>
    /\ recs = <<>>
    /\ lastD = [op |-> "init", ref |-> 0]

IdleDefault ==
    /\ null = FALSE
    /\ declared = [given |-> FALSE, items |-> <<>>]
    /\ objs = <<declared.items>>
    /\ recs = <<>>
    /\ lastD = [op |-> "init", ref |-> 0]

Init == InitEmbedded /\ IdleSort /\ IdleDefault

Next ==
    \/ ToPythonDict
    \/ \E c \in ModelClasses : ToPythonTuple(c)
    \/ ToPythonValue
    \/ GetDbPrepSave
    \/ SetModel
    \/ RegisterTarget
    \/ \E c \in ModelClasses : \E vals \in NewVals(c) : NewInstance(c, vals)
    \/ \E v \in {NoValue, OtherValue} : SetValue(v)
    \/ \E data \in RawData, module \in ModuleMarkers, model \in ModelMarkers :
          MakeDoc(data, module, model)

Spec == Init /\ [][Next]_vars

InitList == IdleEmbedded /\ InitSort /\ IdleDefault

NextList ==
    \/ \E items \in Lists : AssignList(items)
    \/ AssignNone
    \/ \E add \in BOOLEAN : ListPreSave(add)

SpecList == InitList /\ [][NextList]_vars

InitIterable == IdleEmbedded /\ IdleSort /\ InitDefault

NextIterable ==
    \/ NewRecord
    \/ \E r \in 1..MaxRecs, x \in Additions : AppendItem(r, x)
    \/ \E r \in 1..MaxRecs : ClearItems(r)

SpecIterable == InitIterable /\ [][NextIterable]_vars

-----------------------------------------------------------------------------
(* Properties of EmbeddedModelField, checked under Spec *)

DictDecode == last.op = "to_python" /\ last.input = "dict"

Encode == last.op = "get_db_prep_save"

\* C1: through a field declared with a model class, to_python of any raw
\* dict, with or without _module/_model and whatever class they name, resolves
\* the declared class, returns an instance of it, and passes neither marker to
\* the constructor.
C1_DeclaredModelWins ==
    (DictDecode /\ last.em.kind = "class") =>
        /\ last.outcome = "ok"
        /\ last.model = last.em
        /\ attr.kind = "inst"
        /\ attr.cls = last.em.name
        /\ last.kwargs \cap Markers = {}

C1_Witness ==
    /\ DictDecode
    /\ last.em = Class("T")
    /\ Get(last.before, "_module") = "lib"
    /\ Get(last.before, "_model") = "Rec"
    /\ last.outcome = "ok"
    /\ attr.cls = "T"

\* C2: through an untyped field, get_db_prep_save of an instance of class C
\* returns a dict whose _module and _model hold C's module and name, and
\* to_python of that returned dict returns an instance of C.
C2_UntypedRoundTrip ==
    /\ (Encode /\ last.ret = "dict" /\ last.em.kind = "none") =>
           /\ Markers \subseteq DOMAIN doc
           /\ doc["_module"] = ClassModule(last.arg.cls)
           /\ doc["_model"] = ClassName(last.arg.cls)
    /\ (DictDecode /\ last.em.kind = "none" /\ last.src \in ModelClasses) =>
           /\ last.outcome = "ok"
           /\ attr.kind = "inst"
           /\ attr.cls = last.src

C2_Witness ==
    /\ DictDecode
    /\ last.em.kind = "none"
    /\ last.src = "U"
    /\ attr.kind = "inst"
    /\ attr.cls = "U"

\* C3: with embedded_model still an unresolved string, to_python or
\* get_db_prep_save of a non-null value fails with IntegrityError.
C3_UnresolvedIsIntegrityError ==
    (/\ last.op \in {"to_python", "get_db_prep_save"}
     /\ last.em.kind = "str"
     /\ (last.input = "value" => last.arg.kind # "none")) =>
        last.outcome = "IntegrityError"

\* The storage value get_db_prep_save computes for a field of the instance.
Computed(field, instance) ==
    field_get_db_prep_save(field, field_pre_save(field, instance.vals, instance.adding).value)

\* C4: the dict a successful get_db_prep_save returns holds a field's attname
\* exactly when the field is not a primary key whose computed value is None,
\* and holds the computed value there: a null primary key is absent, a null
\* non-primary-key field is present with None.
C4_PrimaryKeyOmission ==
    (Encode /\ last.ret = "dict") =>
        \A i \in 1..Len(MetaFields(last.arg.cls)) :
            LET field == MetaFields(last.arg.cls)[i]
            IN  /\ (field.attname \in DOMAIN doc) <=>
                       ~(field.primary_key /\ Computed(field, last.arg) = None)
                /\ (field.attname \in DOMAIN doc) =>
                       doc[field.attname] = Computed(field, last.arg)

C4_Witness ==
    /\ Encode
    /\ last.ret = "dict"
    /\ last.arg.cls = "T"
    /\ last.arg.vals["id"] = None
    /\ last.arg.vals["a"] = None
    /\ "id" \notin DOMAIN doc
    /\ "a" \in DOMAIN doc
    /\ doc["a"] = None

\* Does the attribute hold, after the last call, the object it was called with.
SameObject == ~(last.op = "to_python" /\ last.input \in {"dict", "tuple"} /\ last.outcome = "ok")

\* C5 as stated: an instance is existing after a successful get_db_prep_save,
\* every instance to_python returns is existing, and no call turns an existing
\* instance back to new.
C5_Lifecycle ==
    /\ (Encode /\ last.ret = "dict") => ~attr.adding
    /\ (last.op = "to_python" /\ last.ret = "instance") => ~attr.adding
    /\ (/\ last.op \in {"to_python", "get_db_prep_save"}
        /\ last.arg.kind = "inst"
        /\ ~last.arg.adding
        /\ SameObject) => ~attr.adding

\* C5 amended: an instance is existing after a successful get_db_prep_save,
\* every instance to_python builds from a dict or a (model, values) tuple is
\* existing, a value that is neither is returned as it is with its flag
\* untouched, and no call turns an existing instance back to new.
C5_LifecycleBuilt ==
    /\ (Encode /\ last.ret = "dict") => ~attr.adding
    /\ (/\ last.op = "to_python"
        /\ last.input \in {"dict", "tuple"}
        /\ last.outcome = "ok") => (attr.kind = "inst" /\ ~attr.adding)
    /\ (last.op = "to_python" /\ last.input = "value") => attr = last.arg
    /\ (/\ last.op \in {"to_python", "get_db_prep_save"}
        /\ last.arg.kind = "inst"
        /\ ~last.arg.adding
        /\ SameObject) => ~attr.adding

C5_Witness ==
    /\ Encode
    /\ last.ret = "dict"
    /\ last.arg.kind = "inst"
    /\ last.arg.adding
    /\ ~attr.adding

\* C8: through an untyped field, to_python of a dict resolves the class by
\* lookup when _model is present and fails with IntegrityError when it is
\* absent, whether or not _module is present.
C8_DecidedByModelMarker ==
    (DictDecode /\ last.em.kind = "none") =>
        IF "_model" \in DOMAIN last.before
        THEN last.outcome # "IntegrityError"
        ELSE last.outcome = "IntegrityError"

\* C9: get_db_prep_save of a non-null value that is no instance of the declared
\* class (of any model class, for an untyped field) raises TypeError, returns
\* no dict and leaves the value, its adding flag included, as it was.
C9_WrongTypeRejected ==
    (/\ Encode
     /\ last.arg.kind # "none"
     /\ \/ last.em.kind = "none" /\ last.arg.kind # "inst"
        \/ last.em.kind = "class" /\ ~(last.arg.kind = "inst" /\ last.em.name \in Mro(last.arg.cls))) =>
        /\ last.outcome = "TypeError"
        /\ last.ret = "raise"
        /\ attr = last.arg
        /\ doc = last.before

C9_Witness ==
    /\ Encode
    /\ last.em = Class("T")
    /\ last.arg.kind = "inst"
    /\ last.arg.cls = "U"
    /\ last.arg.adding
    /\ attr.adding
    /\ last.outcome = "TypeError"

\* C10: to_python of a dict leaves the caller's dict with the keys and values
\* it had before the call.
C10_DecodeLeavesDictAlone ==
    DictDecode => doc = last.before

-----------------------------------------------------------------------------
(* Properties of ListField.pre_save, checked under SpecList *)

Count(s, x) == Cardinality({i \in 1..Len(s) : s[i] = x})

Ascending(f, s) == \A i \in 1..(Len(s) - 1) : Key(f, s[i]) <= Key(f, s[i + 1])

\* C6: pre_save of a non-null list returns the item field's images of the
\* elements; with an ordering key the elements are in ascending order of the
\* key and the attribute is the same list object holding the same elements in
\* that order; with no ordering the elements are returned in their original
\* order and the attribute's list is unchanged.
C6_OrderingOnWrite ==
    (lastS.op = "pre_save" /\ lastS.arg # NoList) =>
        /\ listattr.obj = lastS.arg.obj
        /\ lastS.ret = [i \in 1..Len(listattr.items) |->
                            item_pre_save(item_field, listattr.items[i], lastS.add)]
        /\ IF ordering = None
           THEN listattr.items = lastS.arg.items
           ELSE /\ Ascending(ordering, listattr.items)
                /\ Len(listattr.items) = Len(lastS.arg.items)
                /\ \A x \in Elems : Count(listattr.items, x) = Count(lastS.arg.items, x)

C6_Witness ==
    /\ lastS.op = "pre_save"
    /\ ordering = "identity"
    /\ item_field = "RawField"
    /\ lastS.arg.items = <<3, 1, 2>>
    /\ listattr.items = <<1, 2, 3>>
    /\ lastS.ret = <<1, 2, 3>>

-----------------------------------------------------------------------------
(* Properties of the iterable field's default, checked under SpecIterable *)

\* C7: a field whose default is undeclared (and not nullable) or declared as a
\* non-callable collection hands out, on every access, a new collection with
\* the declared content (empty when undeclared): no two records hold the same
\* collection, none holds the captured default, and whatever was done to the
\* collections handed out before, the captured default keeps its content; a
\* nullable field with no declared default hands out None.
C7_DefaultIsolation ==
    /\ HasCollectionDefault(null, declared) =>
           /\ objs[1] = declared.items
           /\ \A r \in 1..Len(recs) : recs[r] \in 2..Len(objs)
           /\ \A r, q \in 1..Len(recs) : recs[r] = recs[q] => r = q
           /\ lastD.op = "get_default" =>
                  /\ lastD.ref = recs[Len(recs)]
                  /\ objs[lastD.ref] = declared.items
    /\ ~HasCollectionDefault(null, declared) =>
           /\ \A r \in 1..Len(recs) : recs[r] = 0
           /\ lastD.op = "get_default" => lastD.ref = 0

C7_Witness ==
    /\ declared.items = <<2, 1>>
    /\ Len(recs) = 2
    /\ lastD.op = "get_default"
    /\ objs[recs[1]] = <<2, 1, 1>>
    /\ objs[recs[2]] = <<2, 1>>

====
